---- MODULE Spec2Model ----
(***************************************************************************)
(* Model of create_assignment.py: a sequential driver that builds a        *)
(* grading image, creates and starts a container, copies a submission in,  *)
(* runs /autograder/run_autograder and reads back results.json.            *)
(*                                                                         *)
(* A behaviour is one call of one of the module's functions (main,         *)
(* get_results or run_autograder); pc is the position inside the call      *)
(* chain.  Every docker client call is appended to calls with its result.  *)
(***************************************************************************)
EXTENDS Integers, Sequences, FiniteSets, TLC

VARIABLES
    entry,                \* the function that was called: its frame is the outermost one
    pc,                   \* position in the code
    calls,                \* docker client calls issued so far, in order, with their result
    hostSubmission,       \* TRUE iff <submission_dir>/calculator.py exists on the host
    hostResults,          \* content of <submission_dir>/results.json, or Absent
    containerSubmission,  \* TRUE iff something was put into /autograder/submission/
    raRet,                \* how run_autograder ended
    grRet,                \* how get_results ended
    exc,                  \* the exception in flight or propagated out of the entry function
    outcome               \* what main reported

vars ==
    <<entry, pc, calls, hostSubmission, hostResults, containerSubmission,
      raRet, grRet, exc, outcome>>

----------------------------------------------------------------------------
(* Bounds *)

\* exec_run exit codes range over 0..MaxExit
MaxExit == 2

ExitCodes == 0..MaxExit

----------------------------------------------------------------------------
(* Values *)

Absent == "<absent>"

StaleResults == "{\"score\": 1}"

NoException == "none"

\* a Python value as json.loads produces it: kind, len() for containers, payload
Value(kind, size, val) == [kind |-> kind, size |-> size, val |-> val]

\* Python's None, which is also what json.loads gives for the JSON literal null
None == Value("NoneType", 0, 0)

\* the outputs that `cat /autograder/results/results.json` is drawn from when it
\* exits 0: complete documents, an empty file, a partial file and bytes that
\* are not UTF-8
CatOutputs ==
    { "null", "false", "true", "0", "7", "[]", "[1]", "{}",
      "{\"score\": 0}", "{\"score\": 7}", "", "{\"score\": ", "<0xff>" }

CatErrorOutput == "cat: /autograder/results/results.json: No such file or directory"

\* bytes.decode(): UTF-8 decoding, UnicodeDecodeError on an invalid byte
DecodeOK(bytes) == bytes # "<0xff>"

\* json.loads: the documents it accepts
JsonValid ==
    { "null", "false", "true", "0", "7", "[]", "[1]", "{}",
      "{\"score\": 0}", "{\"score\": 7}" }

\* json.loads: the value of an accepted document
JsonLoads(text) ==
    CASE text = "null"            -> None
      [] text = "false"           -> Value("bool", 0, 0)
      [] text = "true"            -> Value("bool", 0, 1)
      [] text = "0"               -> Value("int", 0, 0)
      [] text = "7"               -> Value("int", 0, 7)
      [] text = "[]"              -> Value("list", 0, 0)
      [] text = "[1]"             -> Value("list", 1, 1)
      [] text = "{}"              -> Value("dict", 0, 0)
      [] text = "{\"score\": 0}"  -> Value("dict", 1, 0)
      [] text = "{\"score\": 7}"  -> Value("dict", 1, 7)

\* how a function call ended: still running, returned val, or raised
Pending == [st |-> "pending", val |-> None]

Returned(v) == [st |-> "returned", val |-> v]

RaisedRet == [st |-> "raised", val |-> None]

----------------------------------------------------------------------------
(* The log of docker client calls *)

Call(op, ok, code, out) == [op |-> op, ok |-> ok, code |-> code, out |-> out]

\* a call that returned
OkCall(op) == Call(op, TRUE, 0, "")

\* a call that raised docker.errors.APIError (or a subclass)
FailedCall(op) == Call(op, FALSE, 0, "")

\* an exec_run that returned: it succeeded iff the command exited 0
ExecCall(op, code, out) == Call(op, code = 0, code, out)

Issued(op) == {i \in 1..Len(calls) : calls[i].op = op}

Count(op) == Cardinality(Issued(op))

----------------------------------------------------------------------------
(* Raising *)

\* where control goes when an exception leaves the current statement: main's
\* body is one try block, the other functions have none
RaiseTarget == IF entry = "main" THEN "except" ELSE "done"

Raise(e) ==
    /\ exc' = e
    /\ pc' = RaiseTarget
    /\ raRet' = IF pc \in {"ra_tar", "ra_put", "ra_exec", "ra_cat"}
                THEN RaisedRet ELSE raRet
    /\ grRet' = IF pc \in {"gr_get", "gr_exists", "gr_call"}
                THEN RaisedRet ELSE grRet

----------------------------------------------------------------------------
(* Initial states *)

\* main starts from a fresh uuid4 submission directory and a container that
\* does not exist yet; get_results and run_autograder are handed an existing
\* container and directory, in any state
Init ==
    /\ entry \in {"main", "get_results", "run_autograder"}
    /\ pc = CASE entry = "main"           -> "build"
              [] entry = "get_results"    -> "gr_get"
              [] entry = "run_autograder" -> "ra_tar"
    /\ calls = <<>>
    /\ hostSubmission \in (IF entry = "main" THEN {FALSE} ELSE BOOLEAN)
    /\ hostResults \in (IF entry = "main" THEN {Absent} ELSE {Absent, StaleResults})
    /\ containerSubmission \in (IF entry = "main" THEN {FALSE} ELSE BOOLEAN)
    /\ raRet = Pending
    /\ grRet = Pending
    /\ exc = NoException
    /\ outcome = "none"

----------------------------------------------------------------------------
(* create_test_assignment *)

\* mutant of BuildImage: a failed build is retried once
BuildImageRetries ==
    /\ pc = "build"
    /\ \/ /\ calls' = Append(calls, FailedCall("build"))
          /\ IF Len(calls) = 0
             THEN /\ pc' = "build"
                  /\ UNCHANGED <<raRet, grRet, exc>>
             ELSE Raise("BuildError")
       \/ /\ calls' = Append(calls, OkCall("build"))
          /\ pc' = "create"
          /\ UNCHANGED <<raRet, grRet, exc>>
    /\ UNCHANGED <<entry, hostSubmission, hostResults, containerSubmission, outcome>>

\* build_image: extract the zip and write the Dockerfile into a temporary
\* build context, then client.images.build
BuildImage ==
    /\ pc = "build"
    /\ \/ /\ Raise("OSError")               \* zip missing or unreadable: nothing issued
          /\ UNCHANGED calls
       \/ /\ calls' = Append(calls, FailedCall("build"))
          /\ Raise("BuildError")
       \/ /\ calls' = Append(calls, OkCall("build"))
          /\ pc' = "create"
          /\ UNCHANGED <<raRet, grRet, exc>>
    /\ UNCHANGED <<entry, hostSubmission, hostResults, containerSubmission, outcome>>

\* mutant of CreateContainer: a failed create is swallowed and start is issued
CreateContainerSwallowsFailure ==
    /\ pc = "create"
    /\ \E ok \in BOOLEAN : calls' = Append(calls, Call("create", ok, 0, ""))
    /\ pc' = "start"
    /\ UNCHANGED <<raRet, grRet, exc>>
    /\ UNCHANGED <<entry, hostSubmission, hostResults, containerSubmission, outcome>>

\* create_container: client.containers.create
CreateContainer ==
    /\ pc = "create"
    /\ \/ /\ calls' = Append(calls, FailedCall("create"))
          /\ Raise("APIError")
       \/ /\ calls' = Append(calls, OkCall("create"))
          /\ pc' = "start"
          /\ UNCHANGED <<raRet, grRet, exc>>
    /\ UNCHANGED <<entry, hostSubmission, hostResults, containerSubmission, outcome>>

\* create_container: container.start()
StartContainer ==
    /\ pc = "start"
    /\ \/ /\ calls' = Append(calls, FailedCall("start"))
          /\ Raise("APIError")
       \/ /\ calls' = Append(calls, OkCall("start"))
          /\ pc' = "stage"
          /\ UNCHANGED <<raRet, grRet, exc>>
    /\ UNCHANGED <<entry, hostSubmission, hostResults, containerSubmission, outcome>>

\* os.makedirs(submission_dir) and shutil.copy2 of calculator.py into it; on
\* success create_test_assignment returns and main calls get_results
StageSubmission ==
    /\ pc = "stage"
    /\ \/ /\ Raise("OSError")
          /\ hostSubmission' \in BOOLEAN    \* copy2 may fail before or after writing
       \/ /\ hostSubmission' = TRUE
          /\ pc' = "gr_get"
          /\ UNCHANGED <<raRet, grRet, exc>>
    /\ UNCHANGED <<entry, calls, hostResults, containerSubmission, outcome>>

----------------------------------------------------------------------------
(* get_results *)

\* client.containers.get(container_id)
GetContainer ==
    /\ pc = "gr_get"
    /\ \/ /\ calls' = Append(calls, FailedCall("get"))
          /\ Raise("NotFound")
       \/ /\ calls' = Append(calls, OkCall("get"))
          /\ pc' = "gr_exists"
          /\ UNCHANGED <<raRet, grRet, exc>>
    /\ UNCHANGED <<entry, hostSubmission, hostResults, containerSubmission, outcome>>

\* mutant of CheckSubmissionFile: the existence check is missing
CheckSubmissionFileSkipped ==
    /\ pc = "gr_exists"
    /\ pc' = "gr_call"
    /\ UNCHANGED <<grRet, outcome>>
    /\ UNCHANGED <<entry, calls, hostSubmission, hostResults, containerSubmission,
                   raRet, exc>>

\* if not os.path.exists(submission_file): return None.  A None handed back
\* to main is falsy and takes main's else branch (FAILED).
CheckSubmissionFile ==
    /\ pc = "gr_exists"
    /\ IF hostSubmission
       THEN /\ pc' = "gr_call"
            /\ UNCHANGED <<grRet, outcome>>
       ELSE /\ grRet' = Returned(None)
            /\ pc' = "done"
            /\ outcome' = IF entry = "main" THEN "FAILED" ELSE outcome
    /\ UNCHANGED <<entry, calls, hostSubmission, hostResults, containerSubmission,
                   raRet, exc>>

\* results = run_autograder(container, submission_file, target_dir): three
\* positional arguments for the two parameters of
\* run_autograder(container, submission_file_path).  Python binds the
\* arguments before the body runs, so the call raises TypeError and nothing
\* of run_autograder, nor the rest of get_results, is executed.
CallRunAutograder ==
    /\ pc = "gr_call"
    /\ Raise("TypeError")
    /\ UNCHANGED <<entry, calls, hostSubmission, hostResults, containerSubmission,
                   outcome>>

----------------------------------------------------------------------------
(* run_autograder *)

\* tarfile.open / tar.add(submission_file_path): raises when the file is missing
MakeTar ==
    /\ pc = "ra_tar"
    /\ IF hostSubmission
       THEN /\ pc' = "ra_put"
            /\ UNCHANGED <<raRet, grRet, exc>>
       ELSE Raise("FileNotFoundError")
    /\ UNCHANGED <<entry, calls, hostSubmission, hostResults, containerSubmission,
                   outcome>>

\* container.put_archive("/autograder/submission/", tar_stream)
PutArchive ==
    /\ pc = "ra_put"
    /\ \/ /\ calls' = Append(calls, FailedCall("put_archive"))
          /\ Raise("APIError")
          /\ UNCHANGED containerSubmission
       \/ /\ calls' = Append(calls, OkCall("put_archive"))
          /\ containerSubmission' = TRUE
          /\ pc' = "ra_exec"
          /\ UNCHANGED <<raRet, grRet, exc>>
    /\ UNCHANGED <<entry, hostSubmission, hostResults, outcome>>

\* mutant of ExecAutograder: the exit code of the script is not looked at
ExecAutograderIgnoresExit ==
    /\ pc = "ra_exec"
    /\ \/ /\ calls' = Append(calls, FailedCall("exec_autograder"))
          /\ Raise("APIError")
       \/ \E code \in ExitCodes :
            /\ calls' = Append(calls, ExecCall("exec_autograder", code, ""))
            /\ pc' = "ra_cat"
            /\ UNCHANGED <<raRet, grRet, exc>>
    /\ UNCHANGED <<entry, hostSubmission, hostResults, containerSubmission, outcome>>

\* exec_result = container.exec_run("/bin/bash /autograder/run_autograder");
\* a non-zero exit code returns None
ExecAutograder ==
    /\ pc = "ra_exec"
    /\ \/ /\ calls' = Append(calls, FailedCall("exec_autograder"))
          /\ Raise("APIError")
       \/ \E code \in ExitCodes :
            /\ calls' = Append(calls, ExecCall("exec_autograder", code, ""))
            /\ IF code # 0
               THEN /\ raRet' = Returned(None)
                    /\ pc' = "done"
               ELSE /\ pc' = "ra_cat"
                    /\ UNCHANGED raRet
            /\ UNCHANGED <<grRet, exc>>
    /\ UNCHANGED <<entry, hostSubmission, hostResults, containerSubmission, outcome>>

\* mutant of ReadResults: the test of the exit code is inverted
ReadResultsInvertedExit ==
    /\ pc = "ra_cat"
    /\ \/ /\ calls' = Append(calls, FailedCall("exec_cat"))
          /\ Raise("APIError")
       \/ \E code \in ExitCodes \ {0} :
            /\ calls' = Append(calls, ExecCall("exec_cat", code, CatErrorOutput))
            /\ Raise("JSONDecodeError")
       \/ \E out \in CatOutputs :
            /\ calls' = Append(calls, ExecCall("exec_cat", 0, out))
            /\ raRet' = Returned(None)
            /\ pc' = "done"
            /\ UNCHANGED <<grRet, exc>>
    /\ UNCHANGED <<entry, hostSubmission, hostResults, containerSubmission, outcome>>

\* results_result = container.exec_run("cat /autograder/results/results.json");
\* exit code 0 returns json.loads(output.decode()), otherwise None
ReadResults ==
    /\ pc = "ra_cat"
    /\ \/ /\ calls' = Append(calls, FailedCall("exec_cat"))
          /\ Raise("APIError")
       \/ \E code \in ExitCodes \ {0} :
            /\ calls' = Append(calls, ExecCall("exec_cat", code, CatErrorOutput))
            /\ raRet' = Returned(None)
            /\ pc' = "done"
            /\ UNCHANGED <<grRet, exc>>
       \/ \E out \in CatOutputs :
            /\ calls' = Append(calls, ExecCall("exec_cat", 0, out))
            /\ IF ~DecodeOK(out)
               THEN Raise("UnicodeDecodeError")
               ELSE IF out \notin JsonValid
               THEN Raise("JSONDecodeError")
               ELSE /\ raRet' = Returned(JsonLoads(out))
                    /\ pc' = "done"
                    /\ UNCHANGED <<grRet, exc>>
    /\ UNCHANGED <<entry, hostSubmission, hostResults, containerSubmission, outcome>>

----------------------------------------------------------------------------
(* main *)

\* mutant of MainExcept: the handler re-raises instead of reporting
MainExceptReraises ==
    /\ pc = "except"
    /\ pc' = "done"
    /\ UNCHANGED <<entry, calls, hostSubmission, hostResults, containerSubmission,
                   raRet, grRet, exc, outcome>>

\* except Exception as e: print(f"Error: {e}"); traceback.print_exc()
MainExcept ==
    /\ pc = "except"
    /\ outcome' = "Error"
    /\ pc' = "done"
    /\ UNCHANGED <<entry, calls, hostSubmission, hostResults, containerSubmission,
                   raRet, grRet, exc>>

----------------------------------------------------------------------------

Next ==
    \/ BuildImage
    \/ CreateContainer
    \/ StartContainer
    \/ StageSubmission
    \/ GetContainer
    \/ CheckSubmissionFile
    \/ CallRunAutograder
    \/ MakeTar
    \/ PutArchive
    \/ ExecAutograder
    \/ ReadResults
    \/ MainExcept

Spec == Init /\ [][Next]_vars

TypeOK ==
    /\ entry \in {"main", "get_results", "run_autograder"}
    /\ hostSubmission \in BOOLEAN
    /\ containerSubmission \in BOOLEAN
    /\ hostResults \in {Absent, StaleResults}
    /\ outcome \in {"none", "SUCCESS", "FAILED", "Error"}
    /\ raRet.st \in {"pending", "returned", "raised"}
    /\ grRet.st \in {"pending", "returned", "raised"}

----------------------------------------------------------------------------
(* Properties *)

\* the external steps, in the order the code issues them
StepOps == <<"build", "create", "start", "put_archive", "exec_autograder", "exec_cat">>

StepNames == {StepOps[k] : k \in 1..Len(StepOps)}

Rank(op) == CHOOSE k \in 1..Len(StepOps) : StepOps[k] = op

\* the steps run_autograder issues itself
FirstOwnStepOfRunAutograder == Rank("put_archive")

\* exec op was issued and exited 0
ExitedZero(op) == \E i \in Issued(op) : calls[i].ok

AllCallsOk == \A i \in 1..Len(calls) : calls[i].ok

\* C1: the external steps are issued in the order build, create, start,
\* put_archive, exec of run_autograder, read of results.json; a step is issued
\* only when every earlier step returned successfully (for an exec: exited 0),
\* and only right after its predecessor in that order was issued.
C1_StepsInOrder ==
    \A j \in 1..Len(calls) :
        calls[j].op \in StepNames =>
            /\ \A i \in 1..(j - 1) :
                   calls[i].op \in StepNames =>
                       /\ Rank(calls[i].op) < Rank(calls[j].op)
                       /\ calls[i].ok
            /\ (Rank(calls[j].op) > 1 /\
                (entry = "main" \/ Rank(calls[j].op) > FirstOwnStepOfRunAutograder)) =>
                   \E i \in 1..(j - 1) : Rank(calls[i].op) = Rank(calls[j].op) - 1

\* a run of main that built the image, created the container and started it
C1_Witness ==
    /\ entry = "main"
    /\ Len(calls) >= 3
    /\ calls[1] = OkCall("build")
    /\ calls[2] = OkCall("create")
    /\ calls[3].op = "start"

\* C2: no step is ever issued twice in one run, whatever fails.
C2_AtMostOnce == \A op \in StepNames \cup {"get"} : Count(op) <= 1

\* a run of main that ended after a failed image build
C2_Witness ==
    /\ entry = "main"
    /\ pc = "done"
    /\ calls = <<FailedCall("build")>>

\* C3: a run of main in which every library call succeeded and the submission
\* file is in place has, when it ends, copied the submission into the
\* container and executed /autograder/run_autograder, and has not ended in
\* the Error report.
C3_MainRunsAutograder ==
    (/\ entry = "main"
     /\ pc = "done"
     /\ AllCallsOk
     /\ Count("get") = 1
     /\ hostSubmission)
        => /\ Count("put_archive") = 1
           /\ Count("exec_autograder") = 1
           /\ outcome # "Error"

\* C4 as stated: run_autograder returns a value other than None if and only
\* if both execs exited 0, and that value is the parse of the cat output.
C4_NotNoneIffBothZero ==
    raRet.st = "returned" =>
        /\ raRet.val # None <=> (ExitedZero("exec_autograder") /\ ExitedZero("exec_cat"))
        /\ raRet.val # None =>
               \E i \in Issued("exec_cat") : raRet.val = JsonLoads(calls[i].out)

\* C4 amended: run_autograder returns None exactly when one of the two execs
\* exited non-zero or the cat output is the JSON literal null; a value other
\* than None is returned only after both execs exited 0, and what is returned
\* after both exited 0 is the parse of the cat output.
C4_NoneIffNonZeroOrNull ==
    raRet.st = "returned" =>
        /\ raRet.val = None <=>
               \/ ~(ExitedZero("exec_autograder") /\ ExitedZero("exec_cat"))
               \/ \E i \in Issued("exec_cat") : calls[i].out = "null"
        /\ (ExitedZero("exec_autograder") /\ ExitedZero("exec_cat")) =>
               \E i \in Issued("exec_cat") :
                   /\ calls[i].out \in JsonValid
                   /\ raRet.val = JsonLoads(calls[i].out)

\* run_autograder returned the parsed object of a results file
C4_Witness ==
    /\ entry = "run_autograder"
    /\ raRet = Returned(Value("dict", 1, 7))
    /\ ExitedZero("exec_autograder")
    /\ ExitedZero("exec_cat")

C7_GetResultsHandsOnResult ==
    (/\ entry = "get_results"
     /\ pc = "done"
     /\ hostSubmission
     /\ ExitedZero("get"))
        => /\ raRet.st # "pending"
           /\ raRet.st = "returned" =>
                  /\ grRet = Returned(raRet.val)
                  /\ raRet.val # None =>
                         /\ hostResults \in JsonValid
                         /\ JsonLoads(hostResults) = raRet.val

\* C8: a finished run of main reported exactly one of SUCCESS, FAILED and
\* Error; no exception left main unreported: whenever an exception was raised
\* or a library call failed, the report is Error; SUCCESS is reported only
\* after both execs exited 0 and results.json was written.
C8_MainReportsOneOutcome ==
    (entry = "main" /\ pc = "done") =>
        /\ outcome \in {"SUCCESS", "FAILED", "Error"}
        /\ (exc # NoException \/ ~AllCallsOk) => outcome = "Error"
        /\ outcome = "SUCCESS" =>
               /\ ExitedZero("exec_autograder")
               /\ ExitedZero("exec_cat")
               /\ hostResults # Absent

\* main ended in the Error report after the container failed to start
C8_Witness ==
    /\ entry = "main"
    /\ pc = "done"
    /\ outcome = "Error"
    /\ exc = "APIError"
    /\ Len(calls) = 3

====
